---- MODULE Spec2Model ----
(***************************************************************************)
(* Verification model of the investWin analytics design (the Python        *)
(* listings of the design document, src/unnamed/part_000).                 *)
(*                                                                         *)
(* The module holds several specifications over one set of variables:      *)
(*   SpecCache  - the get-or-compute handlers analyze_opportunities and    *)
(*                MarketDataService.get_real_time_price over the cache     *)
(*   SpecOpp    - the opportunity detectors, applied to bounded snapshots  *)
(*   SpecAlert  - RiskAlertSystem.check_risk_alerts over evaluations       *)
(*   SpecVar    - IndividualStockRisk.calculate_var on bounded return series*)
(*   SpecPortfolio - PortfolioRiskManager.calculate_concentration_risk and  *)
(*                run_stress_scenarios on bounded position lists            *)
(*   SpecFlow   - detect_institutional_flow on bounded trade tapes          *)
(*   SpecMA     - the ma20 / ma50 columns of the stock_analysis view        *)
(*   SpecRebalance - generate_portfolio_rebalancing_suggestions             *)
(*   SpecCorr   - PortfolioRiskManager.calculate_correlation_matrix         *)
(*   SpecApp    - the App component's fetchAssets (frontend/src/App.tsx)    *)
(* Each specification leaves the variables of the others unchanged.        *)
(***************************************************************************)
EXTENDS Integers, Sequences, FiniteSets, TLC

VARIABLES
    now,        \* wall clock, in seconds
    cache,      \* the cache: key -> entry, or NoEntry
    req,        \* per caller: the position of its handler and what it holds
    issued,     \* number of requests issued so far
    ticks,      \* number of clock steps taken so far
    stock_data, \* the snapshot handed to the opportunity detectors
    ran,        \* the detector that ran last
    opps,       \* the list it returned
    raised,     \* the exception it raised, or "none"
    alert_rules,    \* RiskAlertSystem.alert_rules
    today,          \* calendar date of the evaluations
    evals,          \* the evaluations made so far: snapshot, date, alerts
    returns,            \* daily returns handed to calculate_var, in percent
    confidence_level,   \* its confidence_level argument, in thousandths
    holding_period,     \* its holding_period argument, in days
    var_result,         \* what calculate_var returned
    portfolio_positions,    \* the position list handed to the portfolio functions
    concentration,          \* what calculate_concentration_risk returned
    stress_results,         \* what run_stress_scenarios returned
    portfolio_raised,       \* the exception the last of them raised, or "none"
    trade_data,     \* the trade tape handed to detect_institutional_flow
    flow,           \* what it returned
    stock_prices,   \* close_price of the rows of one symbol, by date
    analysis_row,   \* the stock_analysis row of the latest date
    current_weights,    \* what calculate_current_weights returned, in percent
    target_weights,     \* what get_optimal_weights returned, in percent
    suggestions,        \* what generate_portfolio_rebalancing_suggestions returned
    returns_data,       \* symbol -> the return series get_historical_returns gave
    correlation_matrix, \* what calculate_correlation_matrix returned
    assets,         \* App state: the asset list shown
    loading,        \* App state: the loading flag
    requests        \* the fetchAssets calls so far, in order of issue

cacheVars == <<now, cache, req, issued, ticks>>
oppVars == <<stock_data, ran, opps, raised>>
alertVars == <<alert_rules, today, evals>>
varVars == <<returns, confidence_level, holding_period, var_result>>
portfolioVars == <<portfolio_positions, concentration, stress_results, portfolio_raised>>
flowVars == <<trade_data, flow>>
maVars == <<stock_prices, analysis_row>>
rebalanceVars == <<current_weights, target_weights, suggestions>>
corrVars == <<returns_data, correlation_matrix>>
appVars == <<assets, loading, requests>>
moreVars == <<rebalanceVars, corrVars, appVars>>
restVars == <<varVars, portfolioVars, flowVars, maVars, moreVars>>

vars == <<cacheVars, oppVars, alertVars, restVars>>

-----------------------------------------------------------------------------
(* Bounds of the model *)

MaxRequests == 3
MaxTicks == 2
MaxLevels == 2
MaxEvals == 2
MaxDays == 1

(* Program constants *)

PriceTTL == 30
OppTTL == 300

\* Seconds in a calendar day. The clock starts 20 s before midnight, so that
\* the date changes within the lifetime of a cache entry.
DayLen == 24 * 3600
StartTime == DayLen - 20

\* The clock moves in steps of 20 s and 280 s: a quote entry is seen at age
\* 20 and 40, an opportunities entry at age 280 and 300.
Steps == {20, 280}

Callers == {"c1", "c2"}
\* The requests callers make: both kinds for one symbol, both symbols for one kind.
Requests == {<<"price", "AAPL">>, <<"opportunities", "AAPL">>,
             <<"opportunities", "MSFT">>}

-----------------------------------------------------------------------------
(* The cache of the two handlers *)

Date(t) == t \div DayLen

\* f"price:{symbol}" and f"opportunities:{symbol}": a fixed prefix and the symbol.
\* Nothing else enters the key.
cache_key(kind, symbol) == <<kind, symbol>>

Keys == {cache_key(r[1], r[2]) : r \in Requests}

NoEntry == [data |-> "None", expireAt |-> 0, storedAt |-> 0,
            subject |-> "none", kind |-> "none", date |-> 0]

\* The seconds handed to setex / expire=.
ttl_swapped(kind) == IF kind = "price" THEN OppTTL ELSE PriceTTL

ttl_of(kind) == IF kind = "price" THEN PriceTTL ELSE OppTTL

\* What the underlying computation can yield: a quote of a data source, or
\* the list of opportunities (possibly empty).
Results(kind) == IF kind = "price" THEN {"quote"} ELSE {"[]", "[breakout]"}

\* Python truthiness of what the cache get returned.
Truthy(d) == d \notin {"None", "[]"}

\* An entry set with a TTL is gone once the TTL has elapsed.
Live(e, t) == e.data # "None" /\ t < e.expireAt

cache_get(key) == IF Live(cache[key], now) THEN cache[key].data ELSE "None"

\* A caller: pc is the position of its handler, (kind, subject) the request, at
\* the time of its cache get, src how the returned data came about, entry the
\* cache entry that was served or stored.
IdleReq == [pc |-> "idle", kind |-> "none", subject |-> "none", at |-> 0,
            src |-> "none", data |-> "None", entry |-> NoEntry]

CacheStart ==
    /\ now = StartTime
    /\ cache = [k \in Keys |-> NoEntry]
    /\ req = [c \in Callers |-> IdleReq]
    /\ issued = 0
    /\ ticks = 0

\* The handler made to wait while any computation is outstanding.
CacheLookupSerialized(c, kind, symbol) ==
    /\ \A o \in Callers : req[o].pc # "computing"
    /\ req[c].pc # "computing"
    /\ issued < MaxRequests
    /\ issued' = issued + 1
    /\ LET key == cache_key(kind, symbol)
           cached == cache_get(key)
       IN  req' = [req EXCEPT ![c] =
                IF Truthy(cached)
                THEN [pc |-> "done", kind |-> kind, subject |-> symbol, at |-> now,
                      src |-> "hit", data |-> cached, entry |-> cache[key]]
                ELSE [pc |-> "computing", kind |-> kind, subject |-> symbol,
                      at |-> now, src |-> "none", data |-> "None",
                      entry |-> NoEntry]]
    /\ UNCHANGED <<now, cache, ticks, oppVars, alertVars, restVars>>

\* The handler up to its await on the computation: build the key, get, return
\* the cached value if it is truthy, else go on to compute. A caller issues
\* its next request once the previous one has returned.
CacheLookup(c, kind, symbol) ==
    /\ req[c].pc # "computing"
    /\ issued < MaxRequests
    /\ issued' = issued + 1
    /\ LET key == cache_key(kind, symbol)
           cached == cache_get(key)
       IN  req' = [req EXCEPT ![c] =
                IF Truthy(cached)
                THEN [pc |-> "done", kind |-> kind, subject |-> symbol, at |-> now,
                      src |-> "hit", data |-> cached, entry |-> cache[key]]
                ELSE [pc |-> "computing", kind |-> kind, subject |-> symbol,
                      at |-> now, src |-> "none", data |-> "None", entry |-> NoEntry]]
    /\ UNCHANGED <<now, cache, ticks, oppVars, alertVars, restVars>>

\* The computation completes: store the result with the TTL and return it.
FinishCompute(c, d) ==
    /\ req[c].pc = "computing"
    /\ d \in Results(req[c].kind)
    /\ LET key == cache_key(req[c].kind, req[c].subject)
           e == [data |-> d, expireAt |-> now + ttl_of(req[c].kind),
                 storedAt |-> now, subject |-> req[c].subject,
                 kind |-> req[c].kind, date |-> Date(now)]
       IN  /\ cache' = [cache EXCEPT ![key] = e]
           /\ req' = [req EXCEPT ![c].pc = "done", ![c].src = "computed",
                                 ![c].data = d, ![c].entry = e]
    /\ UNCHANGED <<now, issued, ticks, oppVars, alertVars, restVars>>

\* The computation raises (every data source failed, or the scan failed):
\* nothing is stored.
ComputeFail(c) ==
    /\ req[c].pc = "computing"
    /\ req' = [req EXCEPT ![c].pc = "done", ![c].src = "error"]
    /\ UNCHANGED <<now, cache, issued, ticks, oppVars, alertVars, restVars>>

\* Time passes; entries whose TTL has elapsed are gone.
Advance(d) ==
    /\ ticks < MaxTicks
    /\ ticks' = ticks + 1
    /\ now' = now + d
    /\ cache' = [k \in Keys |-> IF Live(cache[k], now + d) THEN cache[k] ELSE NoEntry]
    /\ UNCHANGED <<req, issued, oppVars, alertVars, restVars>>

CacheNext ==
    \/ \E c \in Callers, r \in Requests : CacheLookup(c, r[1], r[2])
    \/ \E c \in Callers, d \in {"quote", "[]", "[breakout]"} : FinishCompute(c, d)
    \/ \E c \in Callers : ComputeFail(c)
    \/ \E d \in Steps : Advance(d)

-----------------------------------------------------------------------------
(* The opportunity detectors.  Prices and volumes are integers; a ratio is   *)
(* kept as the pair <<numerator, denominator>> and compared by cross         *)
(* multiplication; a confidence is in thousandths.                           *)

Levels == {100, 104, 108}
Closes == {100, 105, 106}
PrevCloses == {0, 100}
Volumes == {15, 16, 30, 40, 50, 60}
AvgVolumes == {0, 10}
RsiValues == {25, 30, 75}
LowerBands == {95, 100}
UpperBands == {106, 110}

Ascending(q) == \A i \in 1..(Len(q) - 1) : q[i] < q[i + 1]

\* calculate_resistance_levels: the local maxima of the lookback, at most
\* MaxLevels of them here.
LevelLists == {q \in UNION {[1..n -> Levels] : n \in 0..MaxLevels} : Ascending(q)}

\* The snapshot: the last two bars of stock_data and what the helpers
\* (calculate_resistance_levels, calculate_avg_volume, calculate_rsi,
\* calculate_bollinger_bands) derive from the series.
Snapshots ==
    [resistance_levels : LevelLists, close : Closes, prev_close : PrevCloses,
     volume : Volumes, avg_volume : AvgVolumes, rsi : RsiValues,
     lower_band : LowerBands, upper_band : UpperBands]

Clamp01(x) == IF x < 0 THEN 0 ELSE IF x > 1000 THEN 1000 ELSE x

\* calculate_breakout_confidence: the extension of the close beyond the level
\* and the volume ratio above its 1.5 threshold, each clamped to [0,1], averaged.
calculate_breakout_confidence(sd, level) ==
    LET ext == Clamp01(((sd.close - level) * 1000) \div level)
        vol == IF sd.avg_volume = 0 THEN 1000
               ELSE Clamp01(((sd.volume * 1000) \div sd.avg_volume) - 1500)
    IN  (ext + vol) \div 2

\* One record per resistance level the close has broken on high volume.
RECURSIVE breakout_loop(_, _, _)
breakout_loop(sd, levels, opportunities) ==
    IF levels = << >> THEN opportunities
    ELSE LET level == Head(levels)
         IN  breakout_loop(sd, Tail(levels),
                IF sd.close > level /\ 2 * sd.volume > 3 * sd.avg_volume
                THEN Append(opportunities,
                        [type |-> "resistance_breakout", price_level |-> level,
                         confidence |-> calculate_breakout_confidence(sd, level)])
                ELSE opportunities)

detect_breakout_opportunities(sd) == breakout_loop(sd, sd.resistance_levels, << >>)

detect_oversold_overbought_opportunities(sd) ==
    IF sd.rsi < 30 /\ sd.close <= sd.lower_band
    THEN << [type |-> "oversold_bounce", rsi |-> sd.rsi,
             price_position |-> "below_lower_band",
             potential_upside |-> "calculate_potential_upside"] >>
    ELSE << >>

\* The two divisions of detect_volume_anomalies raise on a zero denominator.
volume_anomalies_raises(sd) == sd.avg_volume = 0 \/ sd.prev_close = 0

detect_volume_anomalies_inclusive(sd) ==
    LET volume_ratio == <<sd.volume, sd.avg_volume>>
        price_change == <<sd.close - sd.prev_close, sd.prev_close>>
    IN  IF sd.volume > 3 * sd.avg_volume
           /\ 100 * (sd.close - sd.prev_close) > 5 * sd.prev_close
        THEN << [type |-> "volume_surge_up", volume_ratio |-> volume_ratio,
                 price_change |-> price_change,
                 strength |-> IF sd.volume >= 5 * sd.avg_volume
                              THEN "strong" ELSE "moderate"] >>
        ELSE << >>

detect_volume_anomalies(sd) ==
    LET volume_ratio == <<sd.volume, sd.avg_volume>>
        price_change == <<sd.close - sd.prev_close, sd.prev_close>>
    IN  IF sd.volume > 3 * sd.avg_volume
           /\ 100 * (sd.close - sd.prev_close) > 5 * sd.prev_close
        THEN << [type |-> "volume_surge_up", volume_ratio |-> volume_ratio,
                 price_change |-> price_change,
                 strength |-> IF sd.volume > 5 * sd.avg_volume
                              THEN "strong" ELSE "moderate"] >>
        ELSE << >>

NoSnapshot == [resistance_levels |-> << >>, close |-> 0, prev_close |-> 0,
               volume |-> 0, avg_volume |-> 0, rsi |-> 0, lower_band |-> 0,
               upper_band |-> 0]

OppStart ==
    /\ stock_data = NoSnapshot
    /\ ran = "none"
    /\ opps = << >>
    /\ raised = "none"

DetectBreakout ==
    /\ ran' = "breakout"
    /\ opps' = detect_breakout_opportunities(stock_data)
    /\ raised' = "none"
    /\ UNCHANGED <<stock_data, cacheVars, alertVars, restVars>>

DetectOversoldOverbought ==
    /\ ran' = "oversold_overbought"
    /\ opps' = detect_oversold_overbought_opportunities(stock_data)
    /\ raised' = "none"
    /\ UNCHANGED <<stock_data, cacheVars, alertVars, restVars>>

DetectVolumeAnomalies ==
    /\ ran' = "volume_anomalies"
    /\ IF volume_anomalies_raises(stock_data)
       THEN opps' = << >> /\ raised' = "ZeroDivisionError"
       ELSE opps' = detect_volume_anomalies(stock_data) /\ raised' = "none"
    /\ UNCHANGED <<stock_data, cacheVars, alertVars, restVars>>

OppNext ==
    \/ DetectBreakout
    \/ DetectOversoldOverbought
    \/ DetectVolumeAnomalies

-----------------------------------------------------------------------------
(* RiskAlertSystem.  A price change and a correlation are in percent, a      *)
(* volatility and a volume ratio are plain numbers.                          *)

price_drop_threshold == -15
volatility_spike_threshold == 3
volume_anomaly_threshold == 5
correlation_threshold == 80

load_default_rules ==
    [price_drop_alert |->
        [threshold |-> price_drop_threshold, timeframe |-> "daily",
         priority |-> "high"],
     volatility_spike |->
        [threshold |-> volatility_spike_threshold, baseline_window |-> 20,
         priority |-> "medium"],
     volume_anomaly |->
        [threshold |-> volume_anomaly_threshold, priority |-> "medium"],
     correlation_increase |->
        [threshold |-> correlation_threshold, priority |-> "low"]]

Subjects == {"AAPL", "MSFT"}

\* What the helpers of check_risk_alerts read off asset_data
\* (calculate_price_change, calculate_current_volatility,
\* calculate_average_volatility), and the volume ratio the snapshot holds.
AssetData ==
    [subject : Subjects, price_change : {-20, -15, -10},
     current_vol : {30, 31}, avg_vol : {10}, volume_ratio : {4, 6}]

\* The portfolio snapshot: its highest pairwise correlation.
PortfolioData == [correlation : {70, 90}]

\* check_risk_alerts with the price rule excluding the threshold itself.
check_risk_alerts_strict(asset_data, portfolio_data) ==
    (IF asset_data.price_change < alert_rules.price_drop_alert.threshold
     THEN << [type |-> "price_drop", severity |-> "high"] >>
     ELSE << >>)
    \o
    (IF asset_data.current_vol > asset_data.avg_vol * alert_rules.volatility_spike.threshold
     THEN << [type |-> "volatility_spike", severity |-> "medium"] >>
     ELSE << >>)

\* check_risk_alerts holding back what an earlier evaluation of the same
\* subject and date has emitted.
check_risk_alerts_once(asset_data, portfolio_data) ==
    LET fired == {a.type : a \in UNION {{e.alerts[i] : i \in 1..Len(e.alerts)} :
                        e \in {evals[j] : j \in {k \in 1..Len(evals) :
                                  /\ evals[k].asset_data.subject = asset_data.subject
                                  /\ evals[k].date = today}}}}
    IN  (IF asset_data.price_change <= alert_rules.price_drop_alert.threshold
            /\ "price_drop" \notin fired
         THEN << [type |-> "price_drop", severity |-> "high"] >>
         ELSE << >>)
        \o
        (IF asset_data.current_vol > asset_data.avg_vol * alert_rules.volatility_spike.threshold
            /\ "volatility_spike" \notin fired
         THEN << [type |-> "volatility_spike", severity |-> "medium"] >>
         ELSE << >>)

\* The alerts list: the price-drop rule, then the volatility-spike rule. The
\* message and the suggestion of an alert are fixed by its type and the
\* snapshot and are left out.
check_risk_alerts(asset_data, portfolio_data) ==
    (IF asset_data.price_change <= alert_rules.price_drop_alert.threshold
     THEN << [type |-> "price_drop", severity |-> "high"] >>
     ELSE << >>)
    \o
    (IF asset_data.current_vol > asset_data.avg_vol * alert_rules.volatility_spike.threshold
     THEN << [type |-> "volatility_spike", severity |-> "medium"] >>
     ELSE << >>)

AlertStart ==
    /\ alert_rules = load_default_rules
    /\ today = 0
    /\ evals = << >>

\* One call of check_risk_alerts on a snapshot.
Evaluate(asset_data, portfolio_data) ==
    /\ Len(evals) < MaxEvals
    /\ evals' = Append(evals,
            [asset_data |-> asset_data, portfolio_data |-> portfolio_data,
             date |-> today, rules |-> alert_rules,
             alerts |-> check_risk_alerts(asset_data, portfolio_data)])
    /\ UNCHANGED <<alert_rules, today, cacheVars, oppVars, restVars>>

\* The calendar date changes between two evaluations.
NextDay ==
    /\ today < MaxDays
    /\ today' = today + 1
    /\ UNCHANGED <<alert_rules, evals, cacheVars, oppVars, restVars>>

AlertNext ==
    \/ \E a \in AssetData, p \in PortfolioData : Evaluate(a, p)
    \/ NextDay

-----------------------------------------------------------------------------
(* IndividualStockRisk.calculate_var *)

\* Returns are in percent (-3 is -3%), confidence levels in thousandths
\* (950 is 0.95); a percentile is reported in thousandths of a percent, so
\* that numpy's linear interpolation between two order statistics is exact.
MaxReturns == 3

ReturnValues == {-3, -1, 2, 5}
ConfidenceLevels == {950, 990, 999}
HoldingPeriods == {1, 2, 5}

\* calculate_daily_returns(price_data) is not part of the listing: its output
\* is the input here.  numpy's percentile of an empty array is left out.
ReturnSeries == UNION {[1..n -> ReturnValues] : n \in 1..MaxReturns}

Abs(x) == IF x < 0 THEN -x ELSE x

\* np.percentile(a, q) with the default linear method, q = tail / 10 percent:
\* the value at the fractional index (n - 1) * q / 100 of the sorted array.
percentile(a, tail) ==
    LET sorted == SortSeq(a, LAMBDA x, y : x < y)
        n == Len(sorted)
        index == (n - 1) * tail
        lo == index \div 1000
        frac == index % 1000
        hi == IF lo + 2 <= n THEN lo + 2 ELSE n
    IN  1000 * sorted[lo + 1] + frac * (sorted[hi] - sorted[lo + 1])

\* The key 'var_95' carries the percentile of the confidence_level argument,
\* the key 'var_99' always the first percentile.
calculate_var(rets, conf, hold) ==
    LET var_percentile == 1000 - conf
        var_value == percentile(rets, var_percentile) * hold
    IN  [var_95 |-> var_value,
         var_99 |-> percentile(rets, 10) * hold]

NoVar == [var_95 |-> 0, var_99 |-> 0, none |-> TRUE]

VarStart ==
    /\ returns = << >>
    /\ confidence_level = 950
    /\ holding_period = 1
    /\ var_result = NoVar

CalculateVar ==
    /\ var_result = NoVar
    /\ var_result' = calculate_var(returns, confidence_level, holding_period)
    /\ UNCHANGED <<returns, confidence_level, holding_period,
                   cacheVars, oppVars, alertVars, portfolioVars, flowVars, maVars, moreVars>>

VarNext == CalculateVar
-----------------------------------------------------------------------------
(* PortfolioRiskManager.calculate_concentration_risk, run_stress_scenarios *)

MaxPositions == 7

Tickers == <<"AAPL", "JPM", "TLT", "MSFT", "TSLA", "GOOG", "AMZN", "NVDA">>
MarketValues == {0, 20, 30, 40}

\* Position lists: one position per ticker, written in ticker order with
\* non-increasing market values (the functions below do not depend on the
\* order of positions of different symbols), and optionally one more
\* position of a symbol the list already holds (portfolio_positions has no
\* uniqueness constraint on symbol).
NonIncreasing(n) ==
    {v \in [1..n -> MarketValues] : \A i \in 1..(n - 1) : v[i] >= v[i + 1]}

DistinctLists(n) ==
    {[i \in 1..n |-> [symbol |-> Tickers[i], market_value |-> v[i]]] :
        v \in NonIncreasing(n)}

PositionLists ==
    UNION {DistinctLists(n) : n \in 0..MaxPositions}
    \cup UNION {UNION {{Append(b, [symbol |-> b[i].symbol, market_value |-> m]) :
                            m \in MarketValues, i \in 1..n} :
                        b \in DistinctLists(n)} :
                n \in 1..(MaxPositions - 1)}

RECURSIVE sum_market_value(_)
sum_market_value(positions) ==
    IF positions = << >> THEN 0
    ELSE Head(positions).market_value + sum_market_value(Tail(positions))

RECURSIVE sum_squares(_, _)
sum_squares(dict, keys) ==
    IF keys = {} THEN 0
    ELSE LET k == CHOOSE x \in keys : TRUE
         IN  dict[k] * dict[k] + sum_squares(dict, keys \ {k})

Max(S) == CHOOSE x \in S : \A y \in S : y <= x

\* The dictionary the loop fills: stock_concentration[pos['symbol']] = weight,
\* so a later position of a symbol replaces the earlier one.  Weights are
\* kept as market values over total_value.
stock_concentration(positions) ==
    LET symbols == {positions[i].symbol : i \in 1..Len(positions)}
        last(sym) == Max({i \in 1..Len(positions) : positions[i].symbol = sym})
    IN  [sym \in symbols |-> positions[last(sym)].market_value]

\* 'high' if hhi > 0.25 else 'medium' if hhi > 0.15 else 'low', on hhi = num/den
concentration_bucket_inclusive(num, den) ==
    IF 4 * num >= den THEN "high"
    ELSE IF 20 * num > 3 * den THEN "medium"
    ELSE "low"

concentration_bucket(num, den) ==
    IF 4 * num > den THEN "high"
    ELSE IF 20 * num > 3 * den THEN "medium"
    ELSE "low"

concentration_risk_raises(positions) ==
    IF positions = << >> THEN "ValueError"              \* max() of no weights
    ELSE IF sum_market_value(positions) = 0 THEN "ZeroDivisionError"
    ELSE "none"

\* herfindahl_index, top_position_weight and diversification_score are
\* fractions <<numerator, denominator>>.
calculate_concentration_risk(positions) ==
    LET total_value == sum_market_value(positions)
        dict == stock_concentration(positions)
        num == sum_squares(dict, DOMAIN dict)
        den == total_value * total_value
    IN  [concentration_risk |-> concentration_bucket(num, den),
         herfindahl_index |-> <<num, den>>,
         top_position_weight |-> <<Max({dict[k] : k \in DOMAIN dict}), total_value>>,
         diversification_score |-> <<den - num, den>>]

\* The scenarios dictionary, its parameters in hundredths.
scenarios ==
    [market_crash |-> [market_decline |-> -30, volatility_spike |-> 250],
     sector_rotation |-> [tech_decline |-> -20, financial_gain |-> 10],
     interest_rate_shock |-> [rate_increase |-> 2, bond_impact |-> -15],
     liquidity_crisis |-> [volume_decline |-> -50, spread_widening |-> 2]]

top_k == 3

\* stocks.sector of the symbols held
sector_of(symbol) ==
    IF symbol \in {"AAPL", "MSFT", "GOOG", "NVDA"} THEN "tech"
    ELSE IF symbol = "JPM" THEN "financial"
    ELSE IF symbol = "TLT" THEN "bond"
    ELSE "consumer"

\* The shock factor a scenario applies to one position, in hundredths of its
\* market value: a market decline and a spread widening reach every
\* position, a sector parameter the positions of that sector; the other
\* parameters move no market value.
shock_factor(position, parameters) ==
    LET P == DOMAIN parameters
        sector == sector_of(position.symbol)
    IN  (IF "market_decline" \in P THEN parameters.market_decline ELSE 0)
        + (IF "spread_widening" \in P THEN -parameters.spread_widening ELSE 0)
        + (IF "tech_decline" \in P /\ sector = "tech"
           THEN parameters.tech_decline ELSE 0)
        + (IF "financial_gain" \in P /\ sector = "financial"
           THEN parameters.financial_gain ELSE 0)
        + (IF "bond_impact" \in P /\ sector = "bond"
           THEN parameters.bond_impact ELSE 0)

\* in hundredths of a currency unit; a loss is negative
position_loss(position, parameters) ==
    shock_factor(position, parameters) * position.market_value

calculate_portfolio_value(positions) == sum_market_value(positions)

RECURSIVE calculate_scenario_impact(_, _)
calculate_scenario_impact(positions, parameters) ==
    IF positions = << >> THEN 0
    ELSE position_loss(Head(positions), parameters)
         + calculate_scenario_impact(Tail(positions), parameters)

\* The top_k positions by absolute loss, largest first, earlier position
\* first among equals.
RECURSIVE worst_loop(_, _, _, _)
worst_loop(positions, parameters, left, acc) ==
    IF left = {} \/ Len(acc) = top_k THEN acc
    ELSE LET loss(i) == Abs(position_loss(positions[i], parameters))
             worst == CHOOSE i \in left :
                        \A j \in left : loss(j) < loss(i) \/ (loss(j) = loss(i) /\ i <= j)
         IN  worst_loop(positions, parameters, left \ {worst},
                Append(acc, [position |-> worst,
                             symbol |-> positions[worst].symbol,
                             loss |-> position_loss(positions[worst], parameters)]))

identify_worst_positions(positions, parameters) ==
    worst_loop(positions, parameters, 1..Len(positions), << >>)

stress_scenarios_raises(positions) ==
    IF calculate_portfolio_value(positions) = 0 THEN "ZeroDivisionError" ELSE "none"

\* loss_percentage is the fraction <<numerator, denominator>>
run_stress_scenarios_undivided(positions) ==
    [scenario_name \in DOMAIN scenarios |->
        LET parameters == scenarios[scenario_name]
            scenario_loss == calculate_scenario_impact(positions, parameters)
        IN  [potential_loss |-> scenario_loss,
             loss_percentage |-> <<scenario_loss, 100>>,
             worst_affected_positions |-> identify_worst_positions(positions, parameters)]]

run_stress_scenarios(positions) ==
    [scenario_name \in DOMAIN scenarios |->
        LET parameters == scenarios[scenario_name]
            scenario_loss == calculate_scenario_impact(positions, parameters)
        IN  [potential_loss |-> scenario_loss,
             loss_percentage |-> <<scenario_loss, 100 * calculate_portfolio_value(positions)>>,
             worst_affected_positions |-> identify_worst_positions(positions, parameters)]]

NoReport == [concentration_risk |-> "none"]
NoResults == [scenario_name \in {} |-> 0]
NotRaised == [concentration |-> "none", stress |-> "none"]

PortfolioStart ==
    /\ portfolio_positions = << >>
    /\ concentration = NoReport
    /\ stress_results = NoResults
    /\ portfolio_raised = NotRaised

CalculateConcentrationRisk ==
    /\ concentration = NoReport
    /\ portfolio_raised.concentration = "none"
    /\ LET exc == concentration_risk_raises(portfolio_positions)
       IN  IF exc # "none"
           THEN /\ portfolio_raised' = [portfolio_raised EXCEPT !.concentration = exc]
                /\ UNCHANGED concentration
           ELSE /\ concentration' = calculate_concentration_risk(portfolio_positions)
                /\ UNCHANGED portfolio_raised
    /\ UNCHANGED <<portfolio_positions, stress_results,
                   cacheVars, oppVars, alertVars, varVars, flowVars, maVars, moreVars>>

RunStressScenarios ==
    /\ stress_results = NoResults
    /\ portfolio_raised.stress = "none"
    /\ LET exc == stress_scenarios_raises(portfolio_positions)
       IN  IF exc # "none"
           THEN /\ portfolio_raised' = [portfolio_raised EXCEPT !.stress = exc]
                /\ UNCHANGED stress_results
           ELSE /\ stress_results' = run_stress_scenarios(portfolio_positions)
                /\ UNCHANGED portfolio_raised
    /\ UNCHANGED <<portfolio_positions, concentration,
                   cacheVars, oppVars, alertVars, varVars, flowVars, maVars, moreVars>>

PortfolioNext == CalculateConcentrationRisk \/ RunStressScenarios
-----------------------------------------------------------------------------
(* detect_institutional_flow *)

MaxTrades == 3

min_size == 1000000

Notionals == {999999, 1000000, 2000000}
Sides == {"buy", "sell"}
Trades == [notional : Notionals, side : Sides]
TradeTapes == UNION {[1..n -> Trades] : n \in 0..MaxTrades}

\* trades whose notional reaches the floor
filter_large_trades(trades, floor) ==
    SelectSeq(trades, LAMBDA t : t.notional >= floor)

\* buys count positive, sells negative
RECURSIVE calculate_net_flow(_)
calculate_net_flow(trades) ==
    IF trades = << >> THEN 0
    ELSE (IF Head(trades).side = "buy"
          THEN Head(trades).notional ELSE -Head(trades).notional)
         + calculate_net_flow(Tail(trades))

None == [type |-> "None"]
NotRun == [type |-> "not_run"]

detect_institutional_flow_nonneg(trades) ==
    LET large_trades == filter_large_trades(trades, min_size)
    IN  IF Len(large_trades) > 0
        THEN LET net_flow == calculate_net_flow(large_trades)
             IN  [type |-> "institutional_flow",
                  net_flow |-> net_flow,
                  trade_count |-> Len(large_trades),
                  sentiment |-> IF net_flow >= 0 THEN "bullish" ELSE "bearish"]
        ELSE None

detect_institutional_flow(trades) ==
    LET large_trades == filter_large_trades(trades, min_size)
    IN  IF Len(large_trades) > 0
        THEN LET net_flow == calculate_net_flow(large_trades)
             IN  [type |-> "institutional_flow",
                  net_flow |-> net_flow,
                  trade_count |-> Len(large_trades),
                  sentiment |-> IF net_flow > 0 THEN "bullish" ELSE "bearish"]
        ELSE None

FlowStart ==
    /\ trade_data = << >>
    /\ flow = NotRun

DetectInstitutionalFlow ==
    /\ flow = NotRun
    /\ flow' = detect_institutional_flow(trade_data)
    /\ UNCHANGED <<trade_data, cacheVars, oppVars, alertVars,
                   varVars, portfolioVars, maVars, moreVars>>

FlowNext == DetectInstitutionalFlow
-----------------------------------------------------------------------------
(* The stock_analysis view: ma20 and ma50 *)

MaxBars == 51

ma20_preceding == 19
ma50_preceding == 49

FirstCloses == {90, 100}
LastCloses == {100, 110}
MiddleClose == 100

\* close_price of one symbol's rows in date order: a first close, a flat
\* stretch, a latest close.
PriceSeries ==
    {[i \in 1..n |-> IF i = n THEN l ELSE IF i = 1 THEN f ELSE MiddleClose] :
        n \in 1..MaxBars, f \in FirstCloses, l \in LastCloses}

RECURSIVE sum_close(_, _, _)
sum_close(prices, from, to) ==
    IF from > to THEN 0 ELSE prices[from] + sum_close(prices, from + 1, to)

\* AVG(close_price) OVER (ORDER BY date ROWS BETWEEN preceding PRECEDING AND
\* CURRENT ROW) at row i: the frame is cut at the first row of the partition.
\* The average is the fraction sum / rows.
window_avg(prices, i, preceding) ==
    LET from == IF i - preceding >= 1 THEN i - preceding ELSE 1
    IN  [sum |-> sum_close(prices, from, i), rows |-> i - from + 1]

stock_analysis(prices, i) ==
    [close_price |-> prices[i],
     ma20 |-> window_avg(prices, i, ma20_preceding),
     ma50 |-> window_avg(prices, i, ma50_preceding)]

NoRow == [close_price |-> 0]

MAStart ==
    /\ stock_prices = << >>
    /\ analysis_row = NoRow

\* SELECT ... FROM stock_analysis for the latest date
SelectLatest ==
    /\ analysis_row = NoRow
    /\ Len(stock_prices) > 0
    /\ analysis_row' = stock_analysis(stock_prices, Len(stock_prices))
    /\ UNCHANGED <<stock_prices, cacheVars, oppVars, alertVars,
                   varVars, portfolioVars, flowVars, moreVars>>

MANext == SelectLatest
-----------------------------------------------------------------------------
(* PortfolioRiskManager.generate_portfolio_rebalancing_suggestions *)

\* Weights are in percent.  calculate_current_weights and get_optimal_weights
\* are not part of the listing: the two dictionaries are the inputs here.
RebalanceSymbols == <<"AAPL", "MSFT">>
Weights == {10, 15, 16}

WeightDicts ==
    UNION {[keys -> Weights] :
            keys \in SUBSET {RebalanceSymbols[i] : i \in 1..Len(RebalanceSymbols)}}

\* target_weights.get(symbol, 0)
dict_get(dict, key, default) == IF key \in DOMAIN dict THEN dict[key] ELSE default

\* for symbol in current_weights: ... suggestions.append(...), with the keys
\* taken in the order of RebalanceSymbols
RECURSIVE rebalancing_loop(_, _, _, _)
rebalancing_loop(current, target, symbols, acc) ==
    IF symbols = << >> THEN acc
    ELSE LET symbol == Head(symbols)
         IN  IF symbol \notin DOMAIN current
             THEN rebalancing_loop(current, target, Tail(symbols), acc)
             ELSE LET current_weight == current[symbol]
                      target_weight == dict_get(target, symbol, 0)
                  IN  rebalancing_loop(current, target, Tail(symbols),
                        IF Abs(current_weight - target_weight) > 5
                        THEN Append(acc,
                               [symbol |-> symbol,
                                action |-> IF current_weight > target_weight
                                           THEN "reduce" ELSE "increase",
                                current_weight |-> current_weight,
                                target_weight |-> target_weight,
                                adjustment_amount |->
                                    Abs(current_weight - target_weight)])
                        ELSE acc)

generate_portfolio_rebalancing_suggestions(current, target) ==
    rebalancing_loop(current, target, RebalanceSymbols, << >>)

NoWeights == [key \in {} |-> 0]
NoSuggestions == << [symbol |-> "not_run"] >>

RebalanceStart ==
    /\ current_weights = NoWeights
    /\ target_weights = NoWeights
    /\ suggestions = NoSuggestions

GenerateRebalancingSuggestions ==
    /\ suggestions = NoSuggestions
    /\ suggestions' =
        generate_portfolio_rebalancing_suggestions(current_weights, target_weights)
    /\ UNCHANGED <<current_weights, target_weights, cacheVars, oppVars, alertVars,
                   varVars, portfolioVars, flowVars, maVars, corrVars, appVars>>

RebalanceNext == GenerateRebalancingSuggestions

-----------------------------------------------------------------------------
(* PortfolioRiskManager.calculate_correlation_matrix *)

MaxDates == 4

CorrSymbols == {"AAPL", "MSFT"}
DailyReturns == {0, 2}

\* get_historical_returns(symbol) is not part of the listing: a series of
\* daily returns indexed by trading date, which need not cover every date and
\* holds at least two returns here.
HistoricalReturns ==
    UNION {[dates -> DailyReturns] :
            dates \in {D \in SUBSET (1..MaxDates) : Cardinality(D) > 1}}

RECURSIVE sum_over(_, _)
sum_over(f, S) ==
    IF S = {} THEN 0
    ELSE LET d == CHOOSE x \in S : TRUE
         IN  f[d] + sum_over(f, S \ {d})

NaN == [nan |-> TRUE, sign |-> 0, num |-> 0, den |-> 1]

Sign(x) == IF x > 0 THEN 1 ELSE IF x < 0 THEN -1 ELSE 0

\* One entry of DataFrame.corr(): Pearson's r over the dates both columns
\* have, NaN when that leaves fewer than two dates or a zero variance.  The
\* value is sign * sqrt(num / den).
corr(x, y) ==
    LET common == DOMAIN x \cap DOMAIN y
        n == Cardinality(common)
        xy == [d \in common |-> x[d] * y[d]]
        xx == [d \in common |-> x[d] * x[d]]
        yy == [d \in common |-> y[d] * y[d]]
        cov == n * sum_over(xy, common) - sum_over(x, common) * sum_over(y, common)
        var_x == n * sum_over(xx, common) - sum_over(x, common) * sum_over(x, common)
        var_y == n * sum_over(yy, common) - sum_over(y, common) * sum_over(y, common)
    IN  IF n < 2 \/ var_x = 0 \/ var_y = 0 THEN NaN
        ELSE [nan |-> FALSE, sign |-> Sign(cov), num |-> cov * cov, den |-> var_x * var_y]

\* pd.DataFrame(returns_data).corr(): a square matrix over the columns
calculate_correlation_matrix(data) ==
    [pair \in (DOMAIN data) \X (DOMAIN data) |-> corr(data[pair[1]], data[pair[2]])]

NoReturnsData == [symbol \in {} |-> 0]
NoMatrix == [pair \in {"not_run"} |-> NaN]

CorrStart ==
    /\ returns_data = NoReturnsData
    /\ correlation_matrix = NoMatrix

CalculateCorrelationMatrix ==
    /\ correlation_matrix = NoMatrix
    /\ correlation_matrix' = calculate_correlation_matrix(returns_data)
    /\ UNCHANGED <<returns_data, cacheVars, oppVars, alertVars,
                   varVars, portfolioVars, flowVars, maVars, rebalanceVars, appVars>>

CorrNext == CalculateCorrelationMatrix

-----------------------------------------------------------------------------
(* The App component: fetchAssets *)

MaxFetches == 3

\* data.assets of a response; the list shown before any response is "[]"
AssetLists == {"[AAPL]", "[AAPL,MSFT]"}
Outcomes == {"success", "not_success", "threw"}

\* What the component holds once the awaited fetch of one call settles:
\* setAssets(data.assets) only if data.success, setLoading(false) in finally.
fetch_settled_no_finally(shown, flag, outcome, data) ==
    [assets |-> IF outcome = "success" THEN data ELSE shown,
     loading |-> IF outcome = "threw" THEN flag ELSE FALSE]

fetch_settled(shown, flag, outcome, data) ==
    [assets |-> IF outcome = "success" THEN data ELSE shown,
     loading |-> FALSE]

Pending == {i \in 1..Len(requests) : requests[i].outcome = "pending"}

AppStart ==
    /\ assets = "[]"
    /\ loading = FALSE
    /\ requests = << >>

\* fetchAssets up to its first await, called on mount, by the 30-second
\* interval or by the refresh button: setLoading(true), fetch sent.
FetchAssets ==
    /\ Len(requests) < MaxFetches
    /\ loading' = TRUE
    /\ requests' = Append(requests, [outcome |-> "pending", data |-> "[]"])
    /\ UNCHANGED <<assets, cacheVars, oppVars, alertVars,
                   varVars, portfolioVars, flowVars, maVars, rebalanceVars, corrVars>>

Settle(i, outcome, data) ==
    /\ i \in Pending
    /\ LET after == fetch_settled(assets, loading, outcome, data)
       IN  /\ assets' = after.assets
           /\ loading' = after.loading
    /\ requests' = [requests EXCEPT ![i] = [outcome |-> outcome, data |-> data]]
    /\ UNCHANGED <<cacheVars, oppVars, alertVars,
                   varVars, portfolioVars, flowVars, maVars, rebalanceVars, corrVars>>

\* the response of call i arrives with success = true
FetchSucceeded(i, data) == Settle(i, "success", data)

\* the response of call i arrives with success = false
FetchNotSuccess(i) == Settle(i, "not_success", "[]")

\* fetch or response.json() of call i rejects
FetchThrew(i) == Settle(i, "threw", "[]")

AppNext ==
    \/ FetchAssets
    \/ \E i \in 1..MaxFetches, data \in AssetLists : FetchSucceeded(i, data)
    \/ \E i \in 1..MaxFetches : FetchNotSuccess(i)
    \/ \E i \in 1..MaxFetches : FetchThrew(i)

-----------------------------------------------------------------------------
(* Specifications *)

MoreStart == RebalanceStart /\ CorrStart /\ AppStart

RestStart == VarStart /\ PortfolioStart /\ FlowStart /\ MAStart /\ MoreStart

CacheInit == CacheStart /\ OppStart /\ AlertStart /\ RestStart

SpecCache == CacheInit /\ [][CacheNext]_vars

OppInit ==
    /\ CacheStart
    /\ AlertStart
    /\ RestStart
    /\ stock_data \in Snapshots
    /\ ran = "none"
    /\ opps = << >>
    /\ raised = "none"

SpecOpp == OppInit /\ [][OppNext]_vars

AlertInit == CacheStart /\ OppStart /\ AlertStart /\ RestStart

SpecAlert == AlertInit /\ [][AlertNext]_vars

VarInit ==
    /\ CacheStart /\ OppStart /\ AlertStart
    /\ PortfolioStart /\ FlowStart /\ MAStart /\ MoreStart
    /\ returns \in ReturnSeries
    /\ confidence_level \in ConfidenceLevels
    /\ holding_period \in HoldingPeriods
    /\ var_result = NoVar

SpecVar == VarInit /\ [][VarNext]_vars

PortfolioInit ==
    /\ CacheStart /\ OppStart /\ AlertStart
    /\ VarStart /\ FlowStart /\ MAStart /\ MoreStart
    /\ portfolio_positions \in PositionLists
    /\ concentration = NoReport
    /\ stress_results = NoResults
    /\ portfolio_raised = NotRaised

SpecPortfolio == PortfolioInit /\ [][PortfolioNext]_vars

FlowInit ==
    /\ CacheStart /\ OppStart /\ AlertStart
    /\ VarStart /\ PortfolioStart /\ MAStart /\ MoreStart
    /\ trade_data \in TradeTapes
    /\ flow = NotRun

SpecFlow == FlowInit /\ [][FlowNext]_vars

MAInit ==
    /\ CacheStart /\ OppStart /\ AlertStart
    /\ VarStart /\ PortfolioStart /\ FlowStart /\ MoreStart
    /\ stock_prices \in PriceSeries
    /\ analysis_row = NoRow

SpecMA == MAInit /\ [][MANext]_vars

RebalanceInit ==
    /\ CacheStart /\ OppStart /\ AlertStart
    /\ VarStart /\ PortfolioStart /\ FlowStart /\ MAStart
    /\ CorrStart /\ AppStart
    /\ current_weights \in WeightDicts
    /\ target_weights \in WeightDicts
    /\ suggestions = NoSuggestions

SpecRebalance == RebalanceInit /\ [][RebalanceNext]_vars

CorrInit ==
    /\ CacheStart /\ OppStart /\ AlertStart
    /\ VarStart /\ PortfolioStart /\ FlowStart /\ MAStart
    /\ RebalanceStart /\ AppStart
    /\ returns_data \in [CorrSymbols -> HistoricalReturns]
    /\ correlation_matrix = NoMatrix

SpecCorr == CorrInit /\ [][CorrNext]_vars

AppInit ==
    /\ CacheStart /\ OppStart /\ AlertStart
    /\ VarStart /\ PortfolioStart /\ FlowStart /\ MAStart
    /\ RebalanceStart /\ CorrStart
    /\ AppStart

SpecApp == AppInit /\ [][AppNext]_vars
-----------------------------------------------------------------------------
(* Claims about the cache *)

KeyOf(c) == cache_key(req[c].kind, req[c].subject)

KindTTL(kind) == IF kind = "price" THEN PriceTTL ELSE OppTTL

\* C1: single-flight - no two computations for the same key are outstanding
\* at the same time (the computation for a key is started once for all the
\* callers that miss it).
C1_SingleFlight ==
    \A a, b \in Callers :
        (a # b /\ req[a].pc = "computing" /\ req[b].pc = "computing")
            => KeyOf(a) # KeyOf(b)

\* C2: a value served from the cache was computed and stored for the same
\* subject, the same kind and the same as-of date as the request it is
\* served to.
C2_KeySeparation ==
    \A c \in Callers :
        req[c].src = "hit" =>
            /\ req[c].entry.subject = req[c].subject
            /\ req[c].entry.kind = req[c].kind
            /\ req[c].entry.date = Date(req[c].at)

\* A cache get by c in this step.
LookupBy(c) == req[c].pc # "computing" /\ req'[c] # req[c]

\* C3: a value is served from the cache only while the TTL of its kind has
\* not elapsed since it was stored; a request that finds no value, or only one
\* whose TTL has elapsed, runs the computation, and a computed value is stored
\* with the full TTL of its kind from the moment it is stored.
C3_ServedWithinTTL ==
    /\ \A c \in Callers :
          req[c].src = "hit" =>
              /\ req[c].data = req[c].entry.data
              /\ req[c].entry.storedAt <= req[c].at
              /\ req[c].at < req[c].entry.storedAt + KindTTL(req[c].kind)
    /\ \A c \in Callers :
          req[c].src = "computed" =>
              /\ req[c].entry.data = req[c].data
              /\ req[c].entry.storedAt >= req[c].at
              /\ req[c].entry.expireAt = req[c].entry.storedAt + KindTTL(req[c].kind)
    /\ \A k \in Keys :
          cache[k] # NoEntry => now < cache[k].storedAt + KindTTL(cache[k].kind)

C3_RecomputeAfterExpiry ==
    \A c \in Callers :
        LookupBy(c) =>
            LET e == cache[cache_key(req'[c].kind, req'[c].subject)]
            IN  (e = NoEntry \/ now >= e.storedAt + KindTTL(req'[c].kind))
                    => req'[c].pc = "computing"

C3_FreshStore ==
    \A c \in Callers :
        (req[c].pc = "computing" /\ req'[c].src = "computed") =>
            LET e == cache'[KeyOf(c)]
            IN  /\ e.data = req'[c].data
                /\ e.storedAt = now
                /\ e.expireAt = now + KindTTL(req[c].kind)

C3_TTL ==
    /\ []C3_ServedWithinTTL
    /\ [][C3_RecomputeAfterExpiry /\ C3_FreshStore]_vars

\* C3 witness: c looked a key up after the TTL of the value another request
\* had got for that key had elapsed, computed again, and its value is the one
\* in the cache now.
C3_Witness ==
    \E a, b \in Callers :
        /\ a # b
        /\ KeyOf(a) = KeyOf(b)
        /\ req[b].src \in {"hit", "computed"}
        /\ req[a].src = "computed"
        /\ req[a].at >= req[b].entry.storedAt + KindTTL(req[b].kind)
        /\ cache[KeyOf(a)] = req[a].entry

\* C4: while a computation for one key is outstanding, another caller can
\* look up any other key, and an outstanding computation for another key can
\* complete and store its result.
C4_NoGlobalLock ==
    \A a, b \in Callers :
        (a # b /\ req[a].pc = "computing") =>
            /\ (req[b].pc # "computing" /\ issued < MaxRequests) =>
                  \A r \in Requests :
                      cache_key(r[1], r[2]) # KeyOf(a)
                          => ENABLED CacheLookup(b, r[1], r[2])
            /\ (req[b].pc = "computing" /\ KeyOf(b) # KeyOf(a)) =>
                  \A d \in Results(req[b].kind) : ENABLED FinishCompute(b, d)

\* C4 witness: b started after a, on another key, and has completed its
\* computation while a's is still outstanding.
C4_Witness ==
    \E a, b \in Callers :
        /\ req[a].pc = "computing"
        /\ req[b].src = "computed"
        /\ KeyOf(b) # KeyOf(a)
        /\ req[b].at >= req[a].at
        /\ cache[KeyOf(b)] = req[b].entry

-----------------------------------------------------------------------------
(* Claims about the opportunity detectors *)

\* C5: the opportunities produced for one symbol on one date hold at most one
\* record of each type (the breakout detector emits at most one
\* resistance_breakout).
C5_OneRecordPerType ==
    \A i, j \in 1..Len(opps) : i # j => opps[i].type # opps[j].type

\* C6: every record in the list a detector returns carries a confidence, and
\* that confidence lies in [0,1]; the list may be empty.
C6_ConfidenceInUnitInterval ==
    \A i \in 1..Len(opps) :
        /\ "confidence" \in DOMAIN opps[i]
        /\ opps[i].confidence \in 0..1000

-----------------------------------------------------------------------------
(* Claims about RiskAlertSystem *)

AlertTypes(e) == {e.alerts[k].type : k \in 1..Len(e.alerts)}

\* C7: over the evaluations made, an alert of one kind is emitted at most once
\* for a subject on a date.
C7_OncePerSubjectKindDate ==
    \A i, j \in 1..Len(evals) :
        (i # j /\ evals[i].asset_data.subject = evals[j].asset_data.subject
               /\ evals[i].date = evals[j].date)
            => AlertTypes(evals[i]) \cap AlertTypes(evals[j]) = {}

C10_EveryRuleEvaluated ==
    \A i \in 1..Len(evals) :
        LET e == evals[i]
            has(t, sev) == \E k \in 1..Len(e.alerts) :
                              e.alerts[k].type = t /\ e.alerts[k].severity = sev
        IN  /\ e.asset_data.volume_ratio > e.rules.volume_anomaly.threshold
                  => has("volume_anomaly", e.rules.volume_anomaly.priority)
            /\ e.portfolio_data.correlation > e.rules.correlation_increase.threshold
                  => has("correlation_increase", e.rules.correlation_increase.priority)
            /\ e.asset_data.price_change <= e.rules.price_drop_alert.threshold
                  => has("price_drop", e.rules.price_drop_alert.priority)
            /\ e.asset_data.current_vol > e.asset_data.avg_vol * e.rules.volatility_spike.threshold
                  => has("volatility_spike", e.rules.volatility_spike.priority)

-----------------------------------------------------------------------------
(* Value at risk *)

\* C11: for every return series, confidence level and holding period the
\* reported values satisfy |var_99| >= |var_95|.
C11_Var99AtLeastVar95 ==
    var_result # NoVar => Abs(var_result.var_99) >= Abs(var_result.var_95)

\* C12: the reported VaR is the one-day percentile scaled by the square root
\* of the holding period: its square is holding_period times the square of
\* the percentile (and for one day it is the percentile itself).
C12_SqrtOfTimeScaling ==
    var_result # NoVar =>
        LET p == percentile(returns, 1000 - confidence_level)
        IN  /\ var_result.var_95 * var_result.var_95 = holding_period * p * p
            /\ holding_period = 1 => var_result.var_95 = p

-----------------------------------------------------------------------------
(* Portfolio concentration and stress test *)

TotalValue == sum_market_value(portfolio_positions)

EqualPositions(n) ==
    /\ Len(portfolio_positions) = n
    /\ \A i \in 1..n :
        /\ portfolio_positions[i].market_value > 0
        /\ portfolio_positions[i].market_value = portfolio_positions[1].market_value

\* C13: for every position list with a report, the Herfindahl index and the
\* diversification score lie in [0,1], and N positions of equal market value
\* have HHI = 1/N.
C13_HerfindahlRange ==
    concentration # NoReport =>
        LET hhi == concentration.herfindahl_index
            div == concentration.diversification_score
        IN  /\ 0 <= hhi[1] /\ hhi[1] <= hhi[2]
            /\ 0 <= div[1] /\ div[1] <= div[2]
            /\ \A n \in 1..(MaxPositions + 1) :
                EqualPositions(n) => n * hhi[1] = hhi[2]

\* C14: the bucket is "high" iff HHI > 0.25, "medium" iff 0.15 < HHI <= 0.25
\* and "low" otherwise; an HHI of exactly 0.25 (four equal positions) is
\* "medium".
C14_StrictBuckets ==
    concentration # NoReport =>
        LET hhi == concentration.herfindahl_index
            risk == concentration.concentration_risk
        IN  /\ risk = "high" <=> 4 * hhi[1] > hhi[2]
            /\ risk = "medium" <=> (20 * hhi[1] > 3 * hhi[2] /\ 4 * hhi[1] <= hhi[2])
            /\ risk = "low" <=> 20 * hhi[1] <= 3 * hhi[2]
            /\ 4 * hhi[1] = hhi[2] => risk = "medium"

\* four positions of four symbols, 30 each: HHI is exactly 0.25
C14_Witness ==
    /\ EqualPositions(4)
    /\ \A i, j \in 1..4 :
        i # j => portfolio_positions[i].symbol # portfolio_positions[j].symbol
    /\ concentration # NoReport
    /\ 4 * concentration.herfindahl_index[1] = concentration.herfindahl_index[2]
    /\ concentration.concentration_risk = "medium"

\* C15: when the total market value is zero (the empty list included),
\* neither the concentration computation nor the stress test raises.
C15_ZeroValueGuarded ==
    TotalValue = 0 => portfolio_raised = NotRaised

-----------------------------------------------------------------------------
(* Volume anomaly, oversold / overbought, institutional flow, moving average *)

Emitted(type) == \E i \in 1..Len(opps) : opps[i].type = type

\* C16: with a zero 20-day average volume or a zero previous close the
\* volume-anomaly detector raises no division error.
C16_ZeroDenominatorGuarded ==
    ran = "volume_anomalies" => raised = "none"

\* C17: volume_surge_up is emitted iff volume / avg_volume > 3 and the
\* same-day return > 5%, both strict; its strength is "strong" iff the ratio
\* is > 5 and "moderate" otherwise.
C17_VolumeSurge ==
    ran = "volume_anomalies" =>
        LET sd == stock_data
            surge == /\ sd.avg_volume > 0 /\ sd.prev_close > 0
                     /\ sd.volume > 3 * sd.avg_volume
                     /\ 100 * (sd.close - sd.prev_close) > 5 * sd.prev_close
        IN  /\ Emitted("volume_surge_up") <=> surge
            /\ Len(opps) <= 1
            /\ \A i \in 1..Len(opps) :
                opps[i].strength =
                    IF sd.volume > 5 * sd.avg_volume THEN "strong" ELSE "moderate"

\* ratio exactly 5 with a +6% return: emitted, and only moderate
C17_Witness ==
    /\ ran = "volume_anomalies"
    /\ stock_data.avg_volume > 0
    /\ stock_data.volume = 5 * stock_data.avg_volume
    /\ stock_data.prev_close = 100 /\ stock_data.close = 106
    /\ Emitted("volume_surge_up")
    /\ opps[1].strength = "moderate"

\* C18: ma20 (ma50) of the latest row is a value iff the symbol has at least
\* 20 (50) rows, and is then the average of exactly that many closes.
C18_MovingAverageNeedsFullWindow ==
    analysis_row # NoRow =>
        /\ analysis_row.ma20.rows \in {0, ma20_preceding + 1}
        /\ analysis_row.ma50.rows \in {0, ma50_preceding + 1}
        /\ analysis_row.ma20.rows > 0 <=> Len(stock_prices) >= ma20_preceding + 1
        /\ analysis_row.ma50.rows > 0 <=> Len(stock_prices) >= ma50_preceding + 1

\* C19: oversold_bounce is emitted iff RSI < 30 and close <= lower band,
\* overbought_pullback iff RSI > 70 and close >= upper band, never both.
C19_OversoldOverbought ==
    ran = "oversold_overbought" =>
        LET sd == stock_data
        IN  /\ Emitted("oversold_bounce") <=>
                (sd.rsi < 30 /\ sd.close <= sd.lower_band)
            /\ Emitted("overbought_pullback") <=>
                (sd.rsi > 70 /\ sd.close >= sd.upper_band)
            /\ ~(Emitted("oversold_bounce") /\ Emitted("overbought_pullback"))

Qualifying == {i \in 1..Len(trade_data) : trade_data[i].notional >= min_size}

RECURSIVE SignedSum(_)
SignedSum(idx) ==
    IF idx = {} THEN 0
    ELSE LET i == CHOOSE x \in idx : TRUE
         IN  (IF trade_data[i].side = "buy"
              THEN trade_data[i].notional ELSE -trade_data[i].notional)
             + SignedSum(idx \ {i})

\* C20: a record is emitted iff some trade has notional >= the floor; its
\* net_flow is the signed sum of the qualifying trades only, its sentiment is
\* "bullish" iff net_flow > 0 and "bearish" otherwise; the trades below the
\* floor do not change the result.
C20_InstitutionalFlow ==
    flow # NotRun =>
        /\ flow # None <=> Qualifying # {}
        /\ flow # None =>
            /\ flow.net_flow = SignedSum(Qualifying)
            /\ flow.trade_count = Cardinality(Qualifying)
            /\ flow.sentiment = IF flow.net_flow > 0 THEN "bullish" ELSE "bearish"
        /\ flow = detect_institutional_flow(
                    SelectSeq(trade_data, LAMBDA t : t.notional >= min_size))

\* a qualifying buy and a qualifying sell that cancel, beside a trade below
\* the floor: a record with net_flow 0, bearish
C20_Witness ==
    /\ flow # NotRun /\ flow # None
    /\ flow.net_flow = 0
    /\ flow.sentiment = "bearish"
    /\ \E i \in 1..Len(trade_data) : trade_data[i].notional < min_size
-----------------------------------------------------------------------------
(* Rebalancing, stress test, correlation *)

WeightOf(dict, symbol) == IF symbol \in DOMAIN dict THEN dict[symbol] ELSE 0

Flagged == {suggestions[i].symbol : i \in 1..Len(suggestions)}

\* C21: the suggestions flag exactly the symbols with a current or a target
\* weight whose |current - target| is strictly above 5 points; the action is
\* "reduce" when current > target and "increase" when current < target, and
\* the adjustment amount is |current - target|.
C21_RebalancingFlags ==
    suggestions # NoSuggestions =>
        /\ Flagged =
            {sym \in DOMAIN current_weights \cup DOMAIN target_weights :
                Abs(WeightOf(current_weights, sym) - WeightOf(target_weights, sym)) > 5}
        /\ \A i \in 1..Len(suggestions) :
            LET sg == suggestions[i]
                cur == WeightOf(current_weights, sg.symbol)
                tgt == WeightOf(target_weights, sg.symbol)
            IN  /\ sg.action = (IF cur > tgt THEN "reduce" ELSE "increase")
                /\ sg.adjustment_amount = Abs(cur - tgt)

PositionLossAt(i, name) == position_loss(portfolio_positions[i], scenarios[name])

RECURSIVE SumLosses(_, _)
SumLosses(idx, name) ==
    IF idx = {} THEN 0
    ELSE LET i == CHOOSE x \in idx : TRUE
         IN  PositionLossAt(i, name) + SumLosses(idx \ {i}, name)

AffectedBy(name) ==
    {i \in 1..Len(portfolio_positions) :
        shock_factor(portfolio_positions[i], scenarios[name]) # 0}

\* C22: per scenario, potential_loss is the sum of the losses of the
\* positions the scenario affects, loss_percentage is potential_loss over the
\* pre-shock portfolio value, and worst_affected_positions holds at most
\* top_k positions in non-increasing order of absolute loss, none left out
\* with a larger absolute loss than one listed.
C22_StressResult ==
    stress_results # NoResults =>
        \A name \in DOMAIN scenarios :
            LET res == stress_results[name]
                worst == res.worst_affected_positions
                listed == {worst[n].position : n \in 1..Len(worst)}
            IN  /\ res.potential_loss = SumLosses(AffectedBy(name), name)
                /\ res.loss_percentage[2] # 0
                /\ res.loss_percentage[1] * 100 * TotalValue
                    = res.potential_loss * res.loss_percentage[2]
                /\ Len(worst) <= top_k
                /\ Cardinality(listed) = Len(worst)
                /\ \A n \in 1..Len(worst) :
                    /\ worst[n].position \in 1..Len(portfolio_positions)
                    /\ worst[n].loss = PositionLossAt(worst[n].position, name)
                /\ \A n \in 1..(Len(worst) - 1) :
                    Abs(worst[n].loss) >= Abs(worst[n + 1].loss)
                /\ \A o \in (1..Len(portfolio_positions)) \ listed :
                    /\ Len(worst) = top_k
                    /\ \A n \in 1..Len(worst) :
                        Abs(PositionLossAt(o, name)) <= Abs(worst[n].loss)

\* a sector rotation over more than top_k positions, some of them outside
\* the two sectors it moves
C22_Witness ==
    /\ stress_results # NoResults
    /\ Len(portfolio_positions) > top_k
    /\ AffectedBy("sector_rotation") # {}
    /\ AffectedBy("sector_rotation") # 1..Len(portfolio_positions)
    /\ stress_results["sector_rotation"].potential_loss # 0
    /\ Len(stress_results["sector_rotation"].worst_affected_positions) = top_k

IsOne(entry) == ~entry.nan /\ entry.sign = 1 /\ entry.num = entry.den

\* C23: the correlation matrix is symmetric, every diagonal entry is exactly
\* 1 (also for a constant series), and a pair of symbols with no common
\* trading date has no entry.
C23_CorrelationMatrix ==
    correlation_matrix # NoMatrix =>
        /\ \A a, b \in DOMAIN returns_data :
            /\ <<a, b>> \in DOMAIN correlation_matrix
                <=> <<b, a>> \in DOMAIN correlation_matrix
            /\ <<a, b>> \in DOMAIN correlation_matrix
                => correlation_matrix[<<a, b>>] = correlation_matrix[<<b, a>>]
        /\ \A a \in DOMAIN returns_data : IsOne(correlation_matrix[<<a, a>>])
        /\ \A a, b \in DOMAIN returns_data :
            (a # b /\ DOMAIN returns_data[a] \cap DOMAIN returns_data[b] = {})
                => <<a, b>> \notin DOMAIN correlation_matrix

-----------------------------------------------------------------------------
(* Memoization hit *)

\* C24: a request for a key whose computed result is stored and whose TTL has
\* not elapsed returns the stored result without running the computation
\* again, also when the stored result is the empty list.
C24_MemoizationHit ==
    [][\A c \in Callers :
        LookupBy(c) =>
            LET e == cache[cache_key(req'[c].kind, req'[c].subject)]
            IN  Live(e, now) =>
                    /\ req'[c].pc = "done"
                    /\ req'[c].src = "hit"
                    /\ req'[c].data = e.data]_vars

-----------------------------------------------------------------------------
(* Claims about the App component *)

Succeeded == {i \in 1..Len(requests) : requests[i].outcome = "success"}

\* C25: loading is true exactly when some fetchAssets call is in flight.
C25_LoadingIffInFlight ==
    loading <=> Pending # {}

\* C26: once no call is in flight, the list shown is the response of the
\* most recently issued call that succeeded.
C26_LatestIssuedWins ==
    (Pending = {} /\ Succeeded # {}) => assets = requests[Max(Succeeded)].data

SettledAt(i) ==
    /\ i \in 1..Len(requests)
    /\ requests[i].outcome = "pending"
    /\ requests'[i].outcome # "pending"

\* C27: a call that throws or gets success = false leaves the list shown
\* unchanged, and every call that settles sets loading to false.
C27_FailureKeepsAssets ==
    [][\A i \in 1..MaxFetches :
        SettledAt(i) =>
            /\ ~loading'
            /\ requests'[i].outcome # "success" => assets' = assets]_vars

\* a call threw after an earlier one had loaded a list: the list is still
\* shown and loading is off
C27_Witness ==
    /\ \E i \in 1..Len(requests) : requests[i].outcome = "threw"
    /\ \E i \in 1..Len(requests) : requests[i].outcome = "not_success"
    /\ Pending = {}
    /\ assets # "[]"
    /\ ~loading
====
